---- MODULE Spec2Model ----
(***************************************************************************)
(* StakeWatch, src/update.py: one run of main() loads seen.json and        *)
(* data.json, collects candidate events from the SEC feed and from the     *)
(* Boerse Frankfurt news feed, admits the candidates whose key is new,     *)
(* truncates the ledger and rewrites seen.json, data.json and events.csv.  *)
(* Strings are TLA+ strings; the text functions work on their characters.  *)
(***************************************************************************)
EXTENDS Integers, Sequences, FiniteSets, TLC

(***************************************************************************)
(* Characters and strings.                                                 *)
(***************************************************************************)
\* the i-th character of s, as a one-character string ("" outside the string)
Ch(s, i) == IF 1 <= i /\ i <= Len(s) THEN SubSeq(s, i, i) ELSE ""

\* c is one of the characters of the string chars
InStr(c, chars) == \E i \in 1..Len(chars) : Ch(chars, i) = c

\* Python's `sub in s`
Contains(s, sub) ==
    \E i \in 1..(Len(s) - Len(sub) + 1) : SubSeq(s, i, i + Len(sub) - 1) = sub

\* s has sub at position i
At(s, i, sub) == i >= 1 /\ i + Len(sub) - 1 <= Len(s) /\ SubSeq(s, i, i + Len(sub) - 1) = sub

\* the characters str.strip() removes and the regular expression \s matches
Whitespace == {" ", "\t", "\n", "\r", "\f"}
IsSpace(c) == c \in Whitespace

Digits == {"0", "1", "2", "3", "4", "5", "6", "7", "8", "9"}
IsDigit(c) == c \in Digits

Min(S) == CHOOSE x \in S : \A y \in S : x <= y
Max(S) == CHOOSE x \in S : \A y \in S : x >= y

\* str.strip()
strip(s) ==
    LET keep == {i \in 1..Len(s) : ~IsSpace(Ch(s, i))}
    IN  IF keep = {} THEN "" ELSE SubSeq(s, Min(keep), Max(keep))

UpperLetters == "ABCDEFGHIJKLMNOPQRSTUVWXYZÄÖÜ"
LowerLetters == "abcdefghijklmnopqrstuvwxyzäöü"

\* str.lower(), character by character
LowerMap ==
    [c \in {Ch(UpperLetters, i) : i \in 1..Len(UpperLetters)} |->
        Ch(LowerLetters, CHOOSE i \in 1..Len(UpperLetters) : Ch(UpperLetters, i) = c)]

LowerCh(c) == IF c \in DOMAIN LowerMap THEN LowerMap[c] ELSE c

RECURSIVE MapChars(_, _)
\* the string s with each character in the domain of f replaced by its image
MapChars(f, s) ==
    IF Len(s) <= 1 THEN (IF s \in DOMAIN f THEN f[s] ELSE s)
    ELSE LET h == Len(s) \div 2
         IN  MapChars(f, SubSeq(s, 1, h)) \o MapChars(f, SubSeq(s, h + 1, Len(s)))

\* str.lower()
lower(s) == MapChars(LowerMap, s)

\* the end of the maximal run of characters of the set cs that starts at i
\* (i - 1 when s[i] is not in cs)
RunEnd(s, i, cs) ==
    LET stops == {j \in i..Len(s) : Ch(s, j) \notin cs}
    IN  IF stops = {} THEN Len(s) ELSE Min(stops) - 1

\* the end of the maximal run of characters outside the set cs that starts at i
RunEndNot(s, i, cs) ==
    LET stops == {j \in i..Len(s) : Ch(s, j) \in cs}
    IN  IF stops = {} THEN Len(s) ELSE Min(stops) - 1

(***************************************************************************)
(* Program constants.                                                      *)
(***************************************************************************)
SEC_FORMS == {"SC 13D", "SC 13G", "8-K"}

\* the retention cap, 2000 in the source, scaled down so that truncation happens
MAX_EVENTS == 2

\* feed.entries[:120] in collect_de, scaled down so that the cut happens
DE_ENTRY_LIMIT == 2

(***************************************************************************)
(* extract_sec_form: re.match(r"^([A-Z0-9/\- ]+?)\s+-\s+", title.strip())  *)
(***************************************************************************)
IsFormChar(c) == InStr(c, "ABCDEFGHIJKLMNOPQRSTUVWXYZ0123456789/- ")

extract_sec_form(title) ==
    LET s == strip(title)
        \* n: length of group 1; the lazy quantifier takes the least n that
        \* lets the rest (\s+ - \s+) match
        ok(n) == /\ \A i \in 1..n : IsFormChar(Ch(s, i))
                 /\ IsSpace(Ch(s, n + 1))
                 /\ LET e == RunEnd(s, n + 1, Whitespace)
                    IN  \E d \in (n + 2)..(e + 1) :
                           /\ Ch(s, d) = "-"
                           /\ \A k \in (n + 1)..(d - 1) : IsSpace(Ch(s, k))
                           /\ d + 1 <= Len(s) /\ IsSpace(Ch(s, d + 1))
        ns == {n \in 1..Len(s) : ok(n)}
    IN  IF ns = {} THEN "" ELSE strip(SubSeq(s, 1, Min(ns)))

(***************************************************************************)
(* html_to_text: seven re.sub passes and a strip.  ReplaceAll is re.sub    *)
(* for a pattern that never matches the empty string: MatchLen(pat, s, i)  *)
(* is the length of the match of pattern pat starting at i, 0 when there   *)
(* is none.                                                                *)
(***************************************************************************)
\* s has sub at position i, ignoring case (re.I)
AtI(s, i, sub) ==
    /\ i >= 1 /\ i + Len(sub) - 1 <= Len(s)
    /\ \A k \in 1..Len(sub) : LowerCh(Ch(s, i + k - 1)) = LowerCh(Ch(sub, k))

\* the least j >= i with s[j] = c, 0 when there is none
FirstFrom(s, i, c) ==
    LET js == {j \in i..Len(s) : Ch(s, j) = c} IN IF js = {} THEN 0 ELSE Min(js)

\* the end of the block <name ...> ... </name> whose ">" is at gt (0: none)
BlockEnd(s, gt, close) ==
    IF gt = 0 THEN 0
    ELSE LET ends == {j \in (gt + 1)..Len(s) : AtI(s, j, close)}
         IN  IF ends = {} THEN 0 ELSE Min(ends) + Len(close) - 1

\* the length of <name[^>]*>.*?</name> at i, with re.I | re.S
BlockLen(s, i, name) ==
    IF ~AtI(s, i, "<" \o name) THEN 0
    ELSE LET e == BlockEnd(s, FirstFrom(s, i + 1 + Len(name), ">"),
                           "</" \o name \o ">")
         IN  IF e = 0 THEN 0 ELSE e - i + 1

\* <(script|style)[^>]*>.*?</\1>  with re.I | re.S
MatchScriptStyle(s, i) ==
    IF AtI(s, i, "<sc") THEN BlockLen(s, i, "script") ELSE BlockLen(s, i, "style")

\* <br\s*/?>  with re.I
MatchBr(s, i) ==
    IF ~AtI(s, i, "<br") THEN 0
    ELSE LET e == RunEnd(s, i + 3, Whitespace)
             k == IF Ch(s, e + 1) = "/" THEN e + 2 ELSE e + 1
         IN  IF Ch(s, k) = ">" THEN k - i + 1 ELSE 0

\* </p\s*>  with re.I
MatchPClose(s, i) ==
    IF ~AtI(s, i, "</p") THEN 0
    ELSE LET e == RunEnd(s, i + 3, Whitespace)
         IN  IF Ch(s, e + 1) = ">" THEN e + 2 - i ELSE 0

\* <[^>]+>
MatchTag(s, i) ==
    IF Ch(s, i) # "<" THEN 0
    ELSE LET gt == FirstFrom(s, i + 1, ">")
         IN  IF gt >= i + 2 THEN gt - i + 1 ELSE 0

\* &nbsp;
MatchNbsp(s, i) == IF At(s, i, "&nbsp;") THEN 6 ELSE 0

\* \s+\n : the whitespace run from i up to its last newline
MatchSpaceNl(s, i) ==
    IF ~IsSpace(Ch(s, i)) THEN 0
    ELSE LET e == RunEnd(s, i, Whitespace)
             nls == {k \in (i + 1)..e : Ch(s, k) = "\n"}
         IN  IF nls = {} THEN 0 ELSE Max(nls) - i + 1

\* \n{3,}
MatchNl3(s, i) ==
    LET e == RunEnd(s, i, {"\n"}) IN IF e - i + 1 >= 3 THEN e - i + 1 ELSE 0

\* the length of the match of one of html_to_text's patterns at i
MatchLen(pat, s, i) ==
    CASE pat = "script_style" -> MatchScriptStyle(s, i)
      [] pat = "br"           -> MatchBr(s, i)
      [] pat = "p_close"      -> MatchPClose(s, i)
      [] pat = "tag"          -> MatchTag(s, i)
      [] pat = "nbsp"         -> MatchNbsp(s, i)
      [] pat = "space_nl"     -> MatchSpaceNl(s, i)
      [] pat = "nl3"          -> MatchNl3(s, i)

RECURSIVE ReplaceFrom(_, _, _, _)
\* the scan from position i, lens[j] being the length of the match at j: the
\* text up to the next match is copied, the match is replaced and the scan
\* goes on behind it
ReplaceFrom(s, i, lens, rep) ==
    LET starts == {j \in i..Len(s) : lens[j] > 0}
    IN  IF starts = {} THEN SubSeq(s, i, Len(s))
        ELSE SubSeq(s, i, Min(starts) - 1) \o rep
                \o ReplaceFrom(s, Min(starts) + lens[Min(starts)], lens, rep)

\* re.sub(pat, rep, s)
ReplaceAll(pat, s, rep) ==
    ReplaceFrom(s, 1, [j \in 1..Len(s) |-> MatchLen(pat, s, j)], rep)

\* the substitutions of html_to_text, in the order the code applies them
Substitutions ==
    << <<"script_style", " ">>, <<"br", "\n">>, <<"p_close", "\n">>, <<"tag", " ">>,
       <<"nbsp", " ">>, <<"space_nl", "\n">>, <<"nl3", "\n\n">> >>

RECURSIVE ReplaceEach(_, _)
\* the substitutions subs applied to s one after the other
ReplaceEach(subs, s) ==
    IF subs = <<>> THEN s
    ELSE ReplaceEach(Tail(subs), ReplaceAll(Head(subs)[1], s, Head(subs)[2]))

html_to_text(html) == strip(ReplaceEach(Substitutions, html))

(***************************************************************************)
(* de_extract_issuer_from_title:                                           *)
(* re.search(r"Stimmrechte\s*:\s*(.+?)(?:\s+-\s+|\s+\||$)", title)         *)
(***************************************************************************)
\* (?:\s+-\s+|\s+\||$) matches at position k of s
IssuerEnd(s, k) ==
    \/ /\ IsSpace(Ch(s, k))
       /\ LET e == RunEnd(s, k, Whitespace)
          IN  \/ \E d \in (k + 1)..(e + 1) :
                    /\ Ch(s, d) = "-"
                    /\ \A j \in k..(d - 1) : IsSpace(Ch(s, j))
                    /\ IsSpace(Ch(s, d + 1))
              \/ Ch(s, e + 1) = "|"
    \/ k = Len(s) + 1
    \/ k = Len(s) /\ Ch(s, k) = "\n"

\* group 1 of the match that starts at p, "" when no match starts there: the
\* second \s* is greedy (the longest run b that still leaves a match) and
\* the group is lazy (the shortest one after it)
IssuerAt(s, p) ==
    IF ~At(s, p, "Stimmrechte") THEN ""
    ELSE LET c == RunEnd(s, p + 11, Whitespace) + 1
         IN  IF Ch(s, c) # ":" THEN ""
             ELSE LET w == RunEnd(s, c + 1, Whitespace)
                      grp(g) == {e \in g..Len(s) :
                                    /\ \A j \in g..e : Ch(s, j) # "\n"
                                    /\ IssuerEnd(s, e + 1)}
                      gs == {g \in (c + 1)..(w + 1) : grp(g) # {}}
                  IN  IF gs = {} THEN ""
                      ELSE SubSeq(s, Max(gs), Min(grp(Max(gs))))

de_extract_issuer_from_title(title) ==
    LET ps == {p \in 1..Len(title) : IssuerAt(title, p) # ""}
    IN  IF ps = {} THEN "" ELSE strip(strip(IssuerAt(title, Min(ps))))

(***************************************************************************)
(* de_parse_percent_new                                                    *)
(***************************************************************************)
\* the line boundaries of str.splitlines() that occur in the modelled texts
LineBreaks == {"\n", "\r", "\f"}

RECURSIVE splitlines(_)
\* str.splitlines(): "\r\n" is one boundary, no empty last line
splitlines(s) ==
    IF s = "" THEN <<>>
    ELSE LET e == RunEndNot(s, 1, LineBreaks)
             brk == IF Ch(s, e + 1) = "\r" /\ Ch(s, e + 2) = "\n" THEN 2 ELSE 1
         IN  <<SubSeq(s, 1, e)>> \o splitlines(SubSeq(s, e + brk + 1, Len(s)))

startswith(s, prefix) == At(s, 1, prefix)

\* str.replace(a, b) for one-character a
ReplaceChar(s, a, b) == MapChars([c \in {a} |-> b], s)

\* the position behind the spaces that follow position g
AfterSpaces(s, g) == RunEnd(s, g + 1, Whitespace) + 1

\* the end of [.,]\d+ behind d1, d1 when it is not there
FractionEnd(s, d1) ==
    IF Ch(s, d1 + 1) \in {".", ","} /\ IsDigit(Ch(s, d1 + 2))
    THEN RunEnd(s, d1 + 2, Digits) ELSE d1

\* the match whose \d+ ends at d1 and whose optional group ends at d2
PercentMatch(s, i, d1, d2) ==
    IF d1 < i THEN <<0, 0>>
    ELSE IF Ch(s, AfterSpaces(s, d2)) = "%" THEN <<AfterSpaces(s, d2) - i + 1, d2 - i + 1>>
    ELSE IF Ch(s, AfterSpaces(s, d1)) = "%" THEN <<AfterSpaces(s, d1) - i + 1, d1 - i + 1>>
    ELSE <<0, 0>>

PercentFrom(s, i, d1) == PercentMatch(s, i, d1, FractionEnd(s, d1))

\* (\d+(?:[.,]\d+)?)\s*% at position i: the length of the match and of its
\* group 1, <<0, 0>> when there is no match
PercentAt(s, i) == PercentFrom(s, i, RunEnd(s, i, Digits))

RECURSIVE findall_percent_from(_, _)
\* the match m at j, and the matches behind it
FindallTake(s, j, m) ==
    <<SubSeq(s, j, j + m[2] - 1)>> \o findall_percent_from(s, j + m[1])

FindallFirst(s, starts) ==
    IF starts = {} THEN <<>> ELSE FindallTake(s, Min(starts), PercentAt(s, Min(starts)))

\* the matches of the scan from position i, left to right, not overlapping
findall_percent_from(s, i) ==
    FindallFirst(s, {j \in i..Len(s) : PercentAt(s, j)[1] > 0})

\* re.findall(r"(\d+(?:[.,]\d+)?)\s*%", line)
findall_percent(line) == findall_percent_from(line, 1)

\* A float is modelled by the text str() gives for it; None by isNone.
\* float(s) for s = digits or digits.digits (all the pattern above can
\* capture), of at most 15 significant digits and not below 0.0001: leading
\* zeros of the integer part and trailing zeros of the fraction are dropped.
FloatRepr(ip, fp) ==
    LET inz == {i \in 1..Len(ip) : Ch(ip, i) # "0"}
        fnz == {i \in 1..Len(fp) : Ch(fp, i) # "0"}
    IN  (IF inz = {} THEN "0" ELSE SubSeq(ip, Min(inz), Len(ip)))
            \o "." \o (IF fnz = {} THEN "0" ELSE SubSeq(fp, 1, Max(fnz)))

FloatAt(s, dot) ==
    [isNone |-> FALSE,
     repr |-> FloatRepr(SubSeq(s, 1, dot - 1), SubSeq(s, dot + 1, Len(s)))]

float(s) == FloatAt(s, Min({i \in 1..Len(s) : Ch(s, i) = "."} \cup {Len(s) + 1}))

None == [isNone |-> TRUE, repr |-> "None"]

RECURSIVE percent_in_lines(_)
\* the body of the loop with perc[0] in place of perc[-1]
PercentOfLine_first(perc, rest) ==
    IF perc # <<>>
    THEN float(ReplaceChar(perc[1], ",", "."))
    ELSE percent_in_lines(rest)

\* the body of the loop for one line, perc being the matches on it when it
\* is a "neu " line
PercentOfLine(perc, rest) ==
    IF perc # <<>>
    THEN float(ReplaceChar(perc[Len(perc)], ",", "."))
    ELSE percent_in_lines(rest)

percent_in_lines(lines) ==
    IF lines = <<>> THEN None
    ELSE PercentOfLine(IF startswith(lower(strip(Head(lines))), "neu ")
                       THEN findall_percent(Head(lines)) ELSE <<>>,
                       Tail(lines))

de_parse_percent_new(text) == percent_in_lines(splitlines(text))

(***************************************************************************)
(* de_parse_notifier                                                       *)
(***************************************************************************)
\* the group that starts at the last of the positions gs
LabelGroup(s, gs) ==
    IF gs = {} THEN "" ELSE SubSeq(s, Max(gs), RunEndNot(s, Max(gs), {"\n"}))

\* the group behind the colon at c
LabelBehind(s, c) ==
    IF Ch(s, c) # ":" THEN ""
    ELSE LabelGroup(s, {g \in (c + 1)..(RunEnd(s, c + 1, Whitespace) + 1) :
                            g <= Len(s) /\ Ch(s, g) # "\n"})

\* group 1 of re.search(label \s*:\s*(.+)) for the match that starts at p, ""
\* when no match starts there: \s* is greedy and backs off until the group
\* has a character that is not a newline; the group runs to the end of line
LabelAt(s, p, label) ==
    IF ~At(s, p, label) THEN ""
    ELSE LabelBehind(s, RunEnd(s, p + Len(label), Whitespace) + 1)

LabelFirst(text, label, ps) ==
    IF ps = {} THEN <<FALSE, "">> ELSE <<TRUE, LabelAt(text, Min(ps), label)>>

\* [found, group 1] of re.search(label \s*:\s*(.+), text)
search_label(text, label) ==
    LabelFirst(text, label, {p \in 1..Len(text) : LabelAt(text, p, label) # ""})

NotifierOf(m1, m2) ==
    IF m1[1] THEN strip(m1[2])
    ELSE IF m2[1] THEN strip(m2[2])
    ELSE ""

de_parse_notifier(text) ==
    NotifierOf(search_label(text, "Juristische Person"),
               search_label(text, "Natürliche Person"))

(***************************************************************************)
(* Events, keys and the persisted records.                                 *)
(***************************************************************************)
\* item.get("link") or item.get("title")
key(item) == IF item.link # "" THEN item.link ELSE item.title

\* the characters of the modelled keys in code point order, for sorted()
CodeOrder ==
    " !#$%&()*+,-./0123456789:;<=>?@ABCDEFGHIJKLMNOPQRSTUVWXYZ_abcdefghijklmnopqrstuvwxyz|ÄÖÜäöü"

Code(c) == CHOOSE i \in 1..Len(CodeOrder) : Ch(CodeOrder, i) = c

\* a < b for Python strings
StrLess(a, b) ==
    \E i \in 1..(Len(b)) :
        /\ SubSeq(a, 1, Min({i - 1, Len(a)})) = SubSeq(b, 1, i - 1)
        /\ Len(a) >= i - 1
        /\ \/ Len(a) = i - 1
           \/ Code(Ch(a, i)) < Code(Ch(b, i))

RECURSIVE sorted(_)
\* sorted(list(S)) for a set of strings
sorted(S) ==
    IF S = {} THEN <<>>
    ELSE LET m == CHOOSE x \in S : \A y \in S \ {x} : StrLess(x, y)
         IN  <<m>> \o sorted(S \ {m})

\* A file is missing, holds text json.load rejects ("corrupt"), holds JSON
\* that is a number, true, false or null ("scalar"), or holds a JSON list.
Missing == [kind |-> "missing", val |-> <<>>]
Corrupt == [kind |-> "corrupt", val |-> <<>>]
Scalar == [kind |-> "scalar", val |-> <<>>]
List(v) == [kind |-> "list", val |-> v]

\* load_json that never reads the file back
load_json_fresh(file, default) == List(default)

\* load_json: the parsed content, the default for a missing or rejected file
load_json(file, default) ==
    IF file.kind \in {"missing", "corrupt"} THEN List(default) ELSE file

\* set(list)
SetOf(seq) == {seq[i] : i \in 1..Len(seq)}

\* seq[:n]
Prefix(seq, n) == SubSeq(seq, 1, Min({n, Len(seq)}))

KeysOf(evs) == {key(evs[i]) : i \in 1..Len(evs)}

(***************************************************************************)
(* The collectors.  A feed is the sequence of entries feedparser returns,  *)
(* each with a title and a link ("" when the entry has none).              *)
(***************************************************************************)
RECURSIVE collect_sec_prefix(_, _)
\* the loop with a filter that accepts every form that starts with a listed one
collect_sec_prefix(entries, t) ==
    IF entries = <<>> THEN <<>>
    ELSE LET title == strip(Head(entries).title)
             link == strip(Head(entries).link)
             form == extract_sec_form(title)
             rest == collect_sec_prefix(Tail(entries), t)
         IN  IF \A f \in SEC_FORMS : ~startswith(form, f) THEN rest
             ELSE <<[time_utc |-> t, region |-> "US", source |-> "SEC",
                     event |-> form, buyer |-> "", target |-> "", percent |-> "",
                     title |-> title, link |-> link]>> \o rest

RECURSIVE collect_sec(_, _)
\* the loop of collect_sec over feed.entries; t is now_utc_iso()
collect_sec(entries, t) ==
    IF entries = <<>> THEN <<>>
    ELSE LET title == strip(Head(entries).title)
             link == strip(Head(entries).link)
             form == extract_sec_form(title)
             rest == collect_sec(Tail(entries), t)
         IN  IF form \notin SEC_FORMS THEN rest
             ELSE <<[time_utc |-> t, region |-> "US", source |-> "SEC",
                     event |-> form, buyer |-> "", target |-> "", percent |-> "",
                     title |-> title, link |-> link]>> \o rest

\* the title filter of collect_de
de_keeps(title) ==
    /\ Contains(title, "EQS")
    /\ Contains(title, "Stimmrechte") \/ Contains(title, "Stimmrechtsmitteilung")

\* The answer of requests.get(link) in collect_de: the call raises (no
\* connection, a timeout, or a link that is no URL), or returns a response
\* with rr.ok false, or one with rr.ok true and a body.
Raises == [kind |-> "raise", text |-> ""]
NotOk == [kind |-> "status", text |-> ""]
Ok(body) == [kind |-> "ok", text |-> body]

\* requests.get("") raises MissingSchema before anything is sent
get(docs, link) == IF link = "" THEN Raises ELSE docs[link]

\* the filter applied to all of feed.entries
de_kept_all(entries) == SelectSeq(entries, LAMBDA e : de_keeps(strip(e.title)))

\* the entries collect_de fetches a document for
de_kept(entries) ==
    LET cut == Prefix(entries, DE_ENTRY_LIMIT)
    IN  SelectSeq(cut, LAMBDA e : de_keeps(strip(e.title)))

\* collect_de raises at a document fetch
AnyRaises(kept, docs) ==
    \E i \in 1..Len(kept) : get(docs, strip(kept[i].link)).kind = "raise"

de_doc_raises(entries, docs) == AnyRaises(de_kept(entries), docs)

\* str(pn) if pn is not None, else ""
PercentField(pn) == IF pn.isNone THEN "" ELSE pn.repr

\* notifier and percent_new after the fetch of the document
DocFields(rr, text) ==
    IF rr.kind = "ok"
    THEN [buyer |-> de_parse_notifier(text),
          percent |-> PercentField(de_parse_percent_new(text))]
    ELSE [buyer |-> "", percent |-> ""]

\* the dict of collect_de with the source of collect_sec left in it
DeRecord_sec(title, link, f, t) ==
    [time_utc |-> t, region |-> "DE", source |-> "SEC",
     event |-> "Stimmrechte", buyer |-> f.buyer,
     target |-> de_extract_issuer_from_title(title),
     percent |-> f.percent, title |-> title, link |-> link]

DeRecord(title, link, f, t) ==
    [time_utc |-> t, region |-> "DE", source |-> "DeutscheBoerseRSS",
     event |-> "Stimmrechte", buyer |-> f.buyer,
     target |-> de_extract_issuer_from_title(title),
     percent |-> f.percent, title |-> title, link |-> link]

DeFetched(title, link, rr, t) == DeRecord(title, link, DocFields(rr, html_to_text(rr.text)), t)

\* the event collect_de appends for a kept entry
de_event(entry, docs, t) ==
    DeFetched(strip(entry.title), strip(entry.link), get(docs, strip(entry.link)), t)

EventsOf(kept, docs, t) == [i \in 1..Len(kept) |-> de_event(kept[i], docs, t)]

\* the list collect_de returns when no document fetch raises
collect_de(entries, docs, t) == EventsOf(de_kept(entries), docs, t)

\* the links collect_de requests at line 144: those of the kept entries, up
\* to the first request that raises
FirstRaise(kept, docs) ==
    Min({i \in 1..Len(kept) : get(docs, strip(kept[i].link)).kind = "raise"} \cup {Len(kept)})

Requests(kept, docs) == [i \in 1..FirstRaise(kept, docs) |-> strip(kept[i].link)]

de_requests(entries, docs) == Requests(de_kept(entries), docs)

(***************************************************************************)
(* The merge of main: lines 174-184.                                       *)
(***************************************************************************)
RECURSIVE admit_unchecked(_, _, _)
\* the loop without the test `key in seen`
admit_unchecked(its, sn, new) ==
    IF its = <<>> THEN <<sn, new>>
    ELSE IF key(Head(its)) = ""
         THEN admit_unchecked(Tail(its), sn, new)
         ELSE admit_unchecked(Tail(its), sn \cup {key(Head(its))}, Append(new, Head(its)))

RECURSIVE admit_late(_, _, _)
\* the loop with seen.add(key) moved behind it
admit_late(its, sn, new) ==
    IF its = <<>> THEN <<sn \cup {key(new[i]) : i \in 1..Len(new)}, new>>
    ELSE IF key(Head(its)) = "" \/ key(Head(its)) \in sn
         THEN admit_late(Tail(its), sn, new)
         ELSE admit_late(Tail(its), sn, Append(new, Head(its)))

RECURSIVE admit_blank(_, _, _)
\* the loop with seen.add(key) ahead of the test for an empty key
admit_blank(its, sn, new) ==
    IF its = <<>> THEN <<sn, new>>
    ELSE IF key(Head(its)) \in sn
         THEN admit_blank(Tail(its), sn, new)
         ELSE IF key(Head(its)) = ""
              THEN admit_blank(Tail(its), sn \cup {""}, new)
              ELSE admit_blank(Tail(its), sn \cup {key(Head(its))}, Append(new, Head(its)))

RECURSIVE admit(_, _, _)
\* the loop over items: <<seen, new_items>> after it
admit(its, sn, new) ==
    IF its = <<>> THEN <<sn, new>>
    ELSE LET item == Head(its)
             k == key(item)
         IN  IF k = "" \/ k \in sn
             THEN admit(Tail(its), sn, new)
             ELSE admit(Tail(its), sn \cup {k}, Append(new, item))

\* events + new_items in place of new_items + events
prepend_behind(new, evs) == IF new # <<>> THEN evs \o new ELSE evs

\* events after `if new_items: events = new_items + events`
prepend(new, evs) == IF new # <<>> THEN new \o evs ELSE evs

\* events[:MAX_EVENTS + 1]
truncate_one_more(evs) == Prefix(evs, MAX_EVENTS + 1)

\* events after `events = events[:MAX_EVENTS]`
truncate(evs) == Prefix(evs, MAX_EVENTS)

\* seen, new_items and events after lines 174-184
Merged(r, evs) ==
    [seen |-> r[1], new_items |-> r[2], events |-> truncate(prepend(r[2], evs))]

merge(its, sn, evs) == Merged(admit(its, sn, <<>>), evs)

(***************************************************************************)
(* The environment: what the two feeds and the document server hold.       *)
(***************************************************************************)
\* the number of runs of main that are started
MaxRuns == 2

S_8K == [title |-> "8-K - ACME CORP (0001234567)", link |-> "https://sec/1"]
S_13DA == [title |-> "SC 13D/A - BETA INC", link |-> "https://sec/2"]
S_13G == [title |-> " SC 13G - GAMMA LP ", link |-> ""]

D_V1 == [title |-> "EQS-Stimmrechte: Beispiel AG - Veröffentlichung", link |-> "https://de/1"]
D_NEWS == [title |-> "EQS-News: Beispiel AG mit neuem Vorstand", link |-> "https://de/2"]
D_V2 == [title |-> "EQS-Stimmrechtsmitteilung: Foo SE", link |-> "https://sec/1"]
D_NOLINK == [title |-> "EQS-Stimmrechte: Ohne Link AG", link |-> ""]

SecFeeds == {<<>>, <<S_8K>>, <<S_13G, S_13DA>>, <<S_8K, S_13G, S_8K>>}

DeFeeds == {<<>>, <<D_NEWS, D_V1>>, <<D_V2, D_V1>>, <<D_V1, D_V1, D_V2>>, <<D_NOLINK>>}

DOC_FULL ==
    "<html><p>Juristische Person: Foo Invest AG</p><p>neu 3,04 % 0,00 % 3,04 %</p></html>"

\* what the document server answers for each link of the DE feed
DocServers ==
    { [l \in {"https://de/1", "https://sec/1"} |-> Ok(DOC_FULL)],
      [l \in {"https://de/1", "https://sec/1"} |-> NotOk],
      [l \in {"https://de/1", "https://sec/1"} |->
          IF l = "https://de/1" THEN Ok("kein Inhalt") ELSE Raises] }

Upstreams == [sec : SecFeeds, de : DeFeeds, docs : DocServers]

\* before the first run
NoUpstream == [sec |-> <<>>, de |-> <<>>, docs |-> [l \in {"https://de/1", "https://sec/1"} |-> NotOk]]

\* The collectors are functions of the upstream and the time: their results
\* for every upstream, computed once.
CollectedSec == [f \in SecFeeds, t \in 1..MaxRuns |-> collect_sec(f, t)]

CollectedDe ==
    [f \in DeFeeds, d \in DocServers, t \in 1..MaxRuns |->
        IF de_doc_raises(f, d) THEN [raises |-> TRUE, out |-> <<>>]
        ELSE [raises |-> FALSE, out |-> collect_de(f, d, t)]]

(***************************************************************************)
(* State.                                                                  *)
(***************************************************************************)
VARIABLES
    seen_json,    \* the file seen.json
    data_json,    \* the file data.json
    events_csv,   \* the file events.csv: the rows written, or Missing/Corrupt
    upstream,     \* what the feeds and the document server hold during the current (or last) run
    pc,           \* where main is: "idle" between two runs
    now,          \* the number of runs started; stands for now_utc_iso()
    seen,         \* main's local seen
    events,       \* main's local events, as load_json returned it
    items,        \* main's local items (collect_sec() while collect_de runs)
    new_items,    \* main's local new_items
    snapshot,     \* history: the three files as the last started run found them
    last,         \* history: how the last run ended, while nothing else touched the files
    stable,       \* history: no run since the last completed one, whose upstream the current run found unchanged
    rerun,        \* history: the last run completed and had found the upstream of the completed run before it
    admitted_keys,\* history: the keys earlier runs admitted
    ever_seen,    \* history: the keys the runs wrote to seen.json
    dropped,      \* history: the keys of the events truncation removed from the ledger
    call,         \* a function of the program applied on its own: its name and its argument
    ret           \* the result of that application, once it has returned

files == <<seen_json, data_json, events_csv>>
locals == <<seen, events, items, new_items>>
history == <<snapshot, last, stable, rerun, admitted_keys, ever_seen, dropped>>
calls == <<call, ret>>
vars == <<seen_json, data_json, events_csv, upstream, pc, now, seen, events, items,
          new_items, snapshot, last, stable, rerun, admitted_keys, ever_seen, dropped,
          call, ret>>

NoRun == [outcome |-> "none", cause |-> "", collected |-> {}, admitted |-> 0]

\* no function is applied on its own
NoCall == [fn |-> "main", arg |-> <<>>]
NotReturned == [done |-> FALSE, val |-> <<>>]

\* before the first run of main
InitRun ==
    /\ seen_json = Missing
    /\ data_json = Missing
    /\ events_csv = Missing
    /\ upstream = NoUpstream
    /\ pc = "idle"
    /\ now = 0
    /\ seen = {}
    /\ events = List(<<>>)
    /\ items = <<>>
    /\ new_items = <<>>
    /\ snapshot = <<Missing, Missing, Missing>>
    /\ last = NoRun
    /\ stable = FALSE
    /\ rerun = FALSE
    /\ admitted_keys = {}
    /\ ever_seen = {}
    /\ dropped = {}

Init ==
    /\ InitRun
    /\ call = NoCall
    /\ ret = NotReturned

ClearLocals ==
    /\ seen' = {}
    /\ events' = List(<<>>)
    /\ items' = <<>>
    /\ new_items' = <<>>

\* an exception leaves main: the process ends with the files as they are
Abort(cause) ==
    /\ pc' = "idle"
    /\ ClearLocals
    /\ last' = [outcome |-> "failed", cause |-> cause,
                collected |-> KeysOf(items), admitted |-> Len(new_items)]
    /\ stable' = FALSE
    /\ rerun' = FALSE
    /\ UNCHANGED <<upstream, now, snapshot, admitted_keys, ever_seen, dropped, calls>>

(***************************************************************************)
(* main, lines 168-171.  The run meets the upstream u: the one the last    *)
(* run saw, or another one.                                                *)
(***************************************************************************)
RunStarts(ups) ==
    /\ pc = "idle"
    /\ now < MaxRuns
    /\ \E u \in ups :
          /\ upstream' = u
          /\ stable' = (last.outcome = "completed" /\ u = upstream)
    /\ load_json(seen_json, <<>>).kind = "list"
    /\ seen' = SetOf(load_json(seen_json, <<>>).val)
    /\ events' = load_json(data_json, <<>>)
    /\ new_items' = <<>>
    /\ items' = <<>>
    /\ now' = now + 1
    /\ snapshot' = files
    /\ last' = NoRun
    /\ rerun' = FALSE
    /\ pc' = "collect_sec"
    /\ UNCHANGED <<files, admitted_keys, ever_seen, dropped, calls>>

Load == RunStarts(Upstreams)

(***************************************************************************)
(* main, line 172: collect_sec() + collect_de().                           *)
(***************************************************************************)
CollectSec ==
    /\ pc = "collect_sec"
    /\ items' = CollectedSec[upstream.sec, now]
    /\ pc' = "collect_de"
    /\ UNCHANGED <<files, upstream, now, seen, events, new_items, history, calls>>

\* requests.get or raise_for_status raises in collect_sec, lines 97-98
SecFeedFails ==
    /\ pc = "collect_sec"
    /\ Abort("sec_feed")
    /\ UNCHANGED files

CollectDe ==
    /\ pc = "collect_de"
    /\ ~CollectedDe[upstream.de, upstream.docs, now].raises
    /\ items' = items \o CollectedDe[upstream.de, upstream.docs, now].out
    /\ pc' = "merge"
    /\ UNCHANGED <<files, upstream, now, seen, events, new_items, history, calls>>

\* requests.get or raise_for_status raises in collect_de, lines 125-126
DeFeedFails ==
    /\ pc = "collect_de"
    /\ Abort("de_feed")
    /\ UNCHANGED files

\* requests.get(link) raises in the loop of collect_de, line 144
DeDocRaises ==
    /\ pc = "collect_de"
    /\ CollectedDe[upstream.de, upstream.docs, now].raises
    /\ Abort("de_doc")
    /\ UNCHANGED files

(***************************************************************************)
(* main, lines 174-184.                                                    *)
(***************************************************************************)
Merge ==
    /\ pc = "merge"
    /\ events.kind = "list"
    /\ seen' = admit(items, seen, <<>>)[1]
    /\ new_items' = admit(items, seen, <<>>)[2]
    /\ events' = List(truncate(prepend(new_items', events.val)))
    /\ pc' = "save_seen"
    /\ UNCHANGED <<files, upstream, now, items, history, calls>>

(***************************************************************************)
(* main, lines 186-188.                                                    *)
(***************************************************************************)
\* seen.json written with the keys of the ledger only
SaveSeen_pruned ==
    /\ pc = "save_seen"
    /\ seen_json' = List(sorted(KeysOf(events.val)))
    /\ ever_seen' = ever_seen \cup seen
    /\ pc' = "save_data"
    /\ UNCHANGED <<data_json, events_csv, upstream, now, locals, snapshot, last, stable,
                   rerun, admitted_keys, dropped, calls>>

SaveSeen ==
    /\ pc = "save_seen"
    /\ seen_json' = List(sorted(seen))
    /\ ever_seen' = ever_seen \cup seen
    /\ pc' = "save_data"
    /\ UNCHANGED <<data_json, events_csv, upstream, now, locals, snapshot, last, stable,
                   rerun, admitted_keys, dropped, calls>>

SaveData ==
    /\ pc = "save_data"
    /\ data_json' = events
    /\ dropped' = dropped \cup
          ((KeysOf(load_json(data_json, <<>>).val) \cup KeysOf(new_items)) \ KeysOf(events.val))
    /\ pc' = "save_csv"
    /\ UNCHANGED <<seen_json, events_csv, upstream, now, locals, snapshot, last, stable,
                   rerun, admitted_keys, ever_seen, calls>>

\* save_csv and the return of main
SaveCsv ==
    /\ pc = "save_csv"
    /\ events_csv' = events
    /\ pc' = "idle"
    /\ ClearLocals
    /\ last' = [outcome |-> "completed", cause |-> "",
                collected |-> KeysOf(items), admitted |-> Len(new_items)]
    /\ rerun' = stable
    /\ stable' = FALSE
    /\ admitted_keys' = admitted_keys \cup KeysOf(new_items)
    /\ UNCHANGED <<seen_json, data_json, upstream, now, snapshot, ever_seen, dropped, calls>>

Next ==
    \/ Load
    \/ CollectSec
    \/ SecFeedFails
    \/ CollectDe
    \/ DeFeedFails
    \/ DeDocRaises
    \/ Merge
    \/ SaveSeen
    \/ SaveData
    \/ SaveCsv

Spec == Init /\ [][Next]_vars

(***************************************************************************)
(* The same runs on a store that fails: between two runs a file is lost or *)
(* replaced, a write of main raises, and main meets content it cannot use. *)
(***************************************************************************)
\* a ledger of MAX_EVENTS + 1 events, as a run with a larger cap wrote it
LongLedger ==
    [i \in 1..(MAX_EVENTS + 1) |->
        [time_utc |-> 0, region |-> "US", source |-> "SEC", event |-> "8-K",
         buyer |-> "", target |-> "", percent |-> "",
         title |-> "8-K - OLD", link |-> "https://old/" \o Ch("123456789", i)]]

\* the upstreams the runs on the failing store meet
StoreUpstreams ==
    { [sec |-> <<>>, de |-> <<>>, docs |-> [l \in {"https://de/1", "https://sec/1"} |-> NotOk]],
      [sec |-> <<S_8K, S_13G, S_8K>>, de |-> <<D_V2, D_V1>>,
       docs |-> [l \in {"https://de/1", "https://sec/1"} |-> Ok(DOC_FULL)]],
      [sec |-> <<S_8K>>, de |-> <<D_NOLINK>>,
       docs |-> [l \in {"https://de/1", "https://sec/1"} |-> NotOk]],
      [sec |-> <<S_8K>>, de |-> <<>>,
       docs |-> [l \in {"https://de/1", "https://sec/1"} |-> NotOk]] }

LoadStore == RunStarts(StoreUpstreams)

\* between two runs a file is deleted or replaced
StoreFault ==
    /\ pc = "idle"
    /\ now < MaxRuns
    /\ \/ /\ seen_json' \in {Missing, Corrupt, Scalar} \ {seen_json}
          /\ UNCHANGED <<data_json, events_csv>>
       \/ /\ data_json' \in {Missing, Corrupt, Scalar, List(LongLedger)} \ {data_json}
          /\ UNCHANGED <<seen_json, events_csv>>
    /\ last' = NoRun
    /\ stable' = FALSE
    /\ rerun' = FALSE
    /\ UNCHANGED <<upstream, pc, now, locals, snapshot, admitted_keys, ever_seen, dropped, calls>>

\* line 168: set(x) raises TypeError for a number, true, false or null
LoadTypeError ==
    /\ pc = "idle"
    /\ now < MaxRuns
    /\ load_json(seen_json, <<>>).kind = "scalar"
    /\ now' = now + 1
    /\ snapshot' = files
    /\ last' = [outcome |-> "failed", cause |-> "load", collected |-> {}, admitted |-> 0]
    /\ stable' = FALSE
    /\ rerun' = FALSE
    /\ UNCHANGED <<files, upstream, pc, locals, admitted_keys, ever_seen, dropped, calls>>

\* lines 182 and 184: new_items + x and x[:MAX_EVENTS] raise TypeError for a
\* number, true, false or null
MergeTypeError ==
    /\ pc = "merge"
    /\ events.kind = "scalar"
    /\ Abort("merge")
    /\ UNCHANGED files

\* open(path, "w") or the writing raises: the file is as it was, or is left
\* cut off
SaveSeenFails ==
    /\ pc = "save_seen"
    /\ seen_json' \in {seen_json, Corrupt}
    /\ Abort("write")
    /\ UNCHANGED <<data_json, events_csv>>

SaveDataFails ==
    /\ pc = "save_data"
    /\ data_json' \in {data_json, Corrupt}
    /\ Abort("write")
    /\ UNCHANGED <<seen_json, events_csv>>

SaveCsvFails ==
    /\ pc = "save_csv"
    /\ events_csv' \in {events_csv, Corrupt}
    /\ Abort("write")
    /\ UNCHANGED <<seen_json, data_json>>

NextStore ==
    \/ LoadStore
    \/ CollectSec
    \/ SecFeedFails
    \/ CollectDe
    \/ DeFeedFails
    \/ DeDocRaises
    \/ Merge
    \/ SaveSeen
    \/ SaveData
    \/ SaveCsv
    \/ StoreFault
    \/ LoadTypeError
    \/ MergeTypeError
    \/ SaveSeenFails
    \/ SaveDataFails
    \/ SaveCsvFails

SpecStore == Init /\ [][NextStore]_vars

(***************************************************************************)
(* The functions of main applied on their own, to arguments drawn from     *)
(* bounded sets: the call is chosen at the start and returns in one step.  *)
(***************************************************************************)
\* the longest list of candidates or feed entries a call is given
MaxItems == 3

\* the sequences over S of length up to n
Seqs(S, n) == UNION {[1..k -> S] : k \in 0..n}

\* a candidate event with the given title and link
Candidate(title, link) ==
    [time_utc |-> 1, region |-> "US", source |-> "SEC", event |-> "8-K",
     buyer |-> "", target |-> "", percent |-> "", title |-> title, link |-> link]

\* candidates with a link, with a title only, and with neither
Candidates ==
    {Candidate("8-K - A", "https://a"), Candidate("8-K - B", ""), Candidate("", "")}

\* the ledgers and seen-sets the merge is applied to
PriorLedgers == {<<>>, <<Candidate("8-K - OLD", "https://old")>>}
PriorSeen == SUBSET {"https://a", "8-K - B"}

MergeCalls ==
    {[fn |-> "merge", arg |-> [items |-> its, seen |-> sn, events |-> evs]] :
        its \in Seqs(Candidates, MaxItems), sn \in PriorSeen, evs \in PriorLedgers}

\* entries of the SEC feed: listed forms, an amended form, titles without a form
S_13D == [title |-> "SC 13D - DELTA SA", link |-> "https://sec/4"]
S_TEXT == [title |-> "Random text with no dash pattern", link |-> "https://sec/5"]
SecEntries == {S_8K, S_13DA, S_13G, S_13D, S_TEXT}

SecCalls == {[fn |-> "collect_sec", arg |-> f] : f \in Seqs(SecEntries, MaxItems)}

\* entries of the DE feed: kept ones, one without "Stimmrechte", one without "EQS"
D_PLAIN == [title |-> "Stimmrechte: Ohne Marker AG", link |-> "https://de/1"]
DeEntries == {D_V1, D_NEWS, D_V2, D_PLAIN}

DeCalls ==
    {[fn |-> "collect_de", arg |-> [entries |-> f, docs |-> d]] :
        f \in Seqs(DeEntries, MaxItems), d \in DocServers}

\* document texts for de_parse_percent_new
PercentTexts ==
    {"", "neu 3,04 % 0,00 % 3,04 % 800.000.000", "alt 2 %\nNeu 5,01 %", "neu 0 %",
     "neu ohne Zahl", "kein Treffer 5 %", "neu ohne Zahl\nneu 7,5 %", "  NEU 1.5%\nneu 9 %",
     "neuer Stand 4 %", "neu 4 % 12", "Stand\r\nneu 10 %  \r\nEnde", "neu 2,50 % 6 %\nneu 1 %"}

PercentCalls == {[fn |-> "de_parse_percent_new", arg |-> x] : x \in PercentTexts}

\* document texts for de_parse_notifier
NotifierTexts ==
    {"", "kein Name",
     "Juristische Person: Acme Holding GmbH\nNatürliche Person: Jane Doe",
     "Natürliche Person: Jane Doe\nJuristische Person: Acme Holding GmbH",
     "Natürliche Person: Jane Doe",
     "Angaben\nJuristische Person:   Foo Invest AG  \nneu 3 %",
     "Juristische Person:\nNatürliche Person: Jane Doe",
     "Natürliche Person: Jane Doe\nJuristische Person:"}

NotifierCalls == {[fn |-> "de_parse_notifier", arg |-> x] : x \in NotifierTexts}

Calls == MergeCalls \cup SecCalls \cup DeCalls \cup PercentCalls \cup NotifierCalls

InitCalls ==
    /\ InitRun
    /\ call \in Calls
    /\ ret = NotReturned

\* the call returns val
Returns(val) ==
    /\ ~ret.done
    /\ ret' = [done |-> TRUE, val |-> val]
    /\ UNCHANGED <<files, upstream, pc, now, locals, history, call>>

\* main, lines 174-184
CallMerge ==
    /\ call.fn = "merge"
    /\ Returns(merge(call.arg.items, call.arg.seen, call.arg.events))

\* collect_sec, lines 101-120, on the parsed feed
CallCollectSec ==
    /\ call.fn = "collect_sec"
    /\ Returns(collect_sec(call.arg, 1))

\* collect_de, lines 129-164, on the parsed feed: the list it returns unless
\* a request raises, and the requests it makes
CallCollectDe ==
    /\ call.fn = "collect_de"
    /\ Returns([raises |-> de_doc_raises(call.arg.entries, call.arg.docs),
                out |-> IF de_doc_raises(call.arg.entries, call.arg.docs) THEN <<>>
                        ELSE collect_de(call.arg.entries, call.arg.docs, 1),
                requests |-> de_requests(call.arg.entries, call.arg.docs)])

\* de_parse_percent_new, and percent_new as collect_de sets it at lines 147-149
CallPercent ==
    /\ call.fn = "de_parse_percent_new"
    /\ Returns([pn |-> de_parse_percent_new(call.arg),
                percent_new |-> PercentField(de_parse_percent_new(call.arg))])

\* de_parse_notifier, lines 85-92
CallNotifier ==
    /\ call.fn = "de_parse_notifier"
    /\ Returns(de_parse_notifier(call.arg))

NextCalls ==
    \/ CallMerge
    \/ CallCollectSec
    \/ CallCollectDe
    \/ CallPercent
    \/ CallNotifier

SpecCalls == InitCalls /\ [][NextCalls]_vars

Returned(fn) == call.fn = fn /\ ret.done

(***************************************************************************)
(* Properties.                                                             *)
(***************************************************************************)
\* the persisted ledger and seen-set, empty when the file holds no list
Ledger == IF data_json.kind = "list" THEN data_json.val ELSE <<>>
SeenKeys == IF seen_json.kind = "list" THEN SetOf(seen_json.val) ELSE {}

DistinctKeys(evs) ==
    \A i, j \in 1..Len(evs) : i # j => key(evs[i]) # key(evs[j])

\* C1: the ledger never holds two events with the same key
\* (key = link if non-empty else title), whatever the feeds return.
C1_LedgerKeysDistinct == DistinctKeys(Ledger)

\* a second run has completed that collected a key already recorded, with two
\* events in the ledger
C1_Witness ==
    /\ pc = "idle" /\ last.outcome = "completed" /\ now = 2
    /\ last.collected \cap SetOf(load_json(snapshot[1], <<>>).val) # {}
    /\ Len(Ledger) >= 2

\* C2: the events a run admits are pairwise distinct by key, and none has a
\* key an earlier run admitted or recorded in seen.json; checked when the
\* merge is done and seen.json still holds what the earlier runs wrote.
C2_AdmittedOnce ==
    pc = "save_seen" =>
        /\ DistinctKeys(new_items)
        /\ KeysOf(new_items) \cap (admitted_keys \cup ever_seen \cup SeenKeys) = {}

\* a run admits a key the feed returned twice in it, while the feed also
\* returned an item an earlier run admitted
C2_Witness ==
    /\ pc = "save_seen"
    /\ \E i, j \in 1..Len(items) :
          i < j /\ key(items[i]) = key(items[j]) /\ key(items[i]) \in KeysOf(new_items)
    /\ KeysOf(items) \cap admitted_keys # {}

\* C3: after a completed run the persisted ledger is a list of at most
\* MAX_EVENTS events, also when nothing was admitted and when the ledger the
\* run loaded was longer.
C3_LedgerCapped ==
    last.outcome = "completed" =>
        data_json.kind = "list" /\ Len(data_json.val) <= MAX_EVENTS

\* a run that admitted nothing has completed from a ledger longer than the cap
C3_Witness ==
    /\ last.outcome = "completed" /\ last.admitted = 0
    /\ Len(load_json(snapshot[2], <<>>).val) > MAX_EVENTS

\* C4: every key once written to seen.json is in seen.json ever after, and no
\* event truncated out of the ledger is in a later ledger.
C4_SeenGrowsDroppedStayOut ==
    /\ ever_seen \subseteq SeenKeys
    /\ KeysOf(Ledger) \cap dropped = {}

\* a run that admitted nothing has completed after collecting an item whose
\* event an earlier run truncated out of the ledger
C4_Witness ==
    /\ pc = "idle" /\ last.outcome = "completed" /\ last.admitted = 0
    /\ last.collected \cap dropped # {}

\* C5: a run that completes from the upstream the completed run before it
\* saw admits nothing and leaves seen.json, data.json and events.csv as that
\* run wrote them.
C5_RerunChangesNothing ==
    rerun => last.admitted = 0 /\ files = snapshot

\* such a second run, of an upstream that yields candidates
C5_Witness == rerun /\ last.collected # {} /\ Len(Ledger) > 0

\* C6 as claimed: when the fetch of one primary feed fails, the candidates
\* collected from the other region are still merged and persisted.
C6_OutageKeepsOtherRegion ==
    last.cause \in {"sec_feed", "de_feed"} => last.collected \subseteq SeenKeys

\* C7 as claimed: no run ends at a failing document fetch, and every kept DE
\* entry whose document fetch did not succeed has its event, with empty buyer
\* and percent.
C7_DocFailureKeepsItem ==
    /\ last.cause # "de_doc"
    /\ pc = "merge" =>
          \A i \in 1..Len(de_kept(upstream.de)) :
              get(upstream.docs, de_kept(upstream.de)[i].link).kind # "ok" =>
                  \E j \in 1..Len(items) :
                      /\ items[j].region = "DE"
                      /\ items[j].link = de_kept(upstream.de)[i].link
                      /\ items[j].buyer = "" /\ items[j].percent = ""

\* C8 as claimed: a run that fails leaves the three files as it found them.
C8_AllOrNothing == last.outcome = "failed" => files = snapshot

\* C9 as claimed: no run fails over the content of seen.json or data.json.
C9_ReadFailureNotFatal == last.cause \notin {"load", "merge"}

\* the items admitted from its, in their order: those with a non-empty key
\* that is not in sn and is not the key of an item before them
FirstNew(its, sn) ==
    SelectSeq([i \in 1..Len(its) |-> <<i, its[i]>>],
              LAMBDA p : /\ key(p[2]) # "" /\ key(p[2]) \notin sn
                         /\ \A j \in 1..(p[1] - 1) : key(its[j]) # key(p[2]))

\* C10: the merge yields the admitted events, in input order, followed by
\* the prior ledger, cut to the first MAX_EVENTS; so the persisted ledger
\* lists the events of a later run before those of an earlier one.
C10_MergeOrder ==
    /\ pc = "save_seen" =>
          /\ events.val = Prefix(new_items \o Ledger, MAX_EVENTS)
          /\ new_items = [i \in 1..Len(FirstNew(items, SeenKeys)) |->
                              FirstNew(items, SeenKeys)[i][2]]
    /\ \A i, j \in 1..Len(Ledger) : i < j => Ledger[i].time_utc >= Ledger[j].time_utc

\* a run admits two events in front of a ledger that is not empty, and the
\* result is cut
C10_Witness ==
    /\ pc = "save_seen" /\ Len(new_items) >= 2 /\ Len(Ledger) >= 1
    /\ Len(new_items) + Len(Ledger) > MAX_EVENTS

\* seq without its i-th element
Without(seq, i) == SubSeq(seq, 1, i - 1) \o SubSeq(seq, i + 1, Len(seq))

\* candidate i of its is discarded: its key is empty, or in the seen-set when
\* the loop reaches it
Discarded(its, sn, i) ==
    \/ key(its[i]) = ""
    \/ key(its[i]) \in admit(SubSeq(its, 1, i - 1), sn, <<>>)[1]

\* C11: a candidate whose key is empty or already in the seen-set is discarded
\* with no mutation: seen-set, admitted list and ledger are what they are
\* without that candidate, and the empty string is never added to the seen-set.
C11_DiscardMutatesNothing ==
    Returned("merge") =>
        /\ \A i \in 1..Len(call.arg.items) :
              Discarded(call.arg.items, call.arg.seen, i) =>
                  ret.val = merge(Without(call.arg.items, i), call.arg.seen, call.arg.events)
        /\ "" \notin ret.val.seen

\* a merge has met a candidate with an empty key and one whose key was seen,
\* and has admitted another one
C11_Witness ==
    /\ Returned("merge")
    /\ \E i \in 1..Len(call.arg.items) : key(call.arg.items[i]) = ""
    /\ \E i \in 1..Len(call.arg.items) : key(call.arg.items[i]) \in call.arg.seen
    /\ ret.val.new_items # <<>>

\* the titles of the events collect_sec emits for entries without a link
NoLinkTitlesSec(entries) ==
    {CollectedSec[entries, 1][i].title : i \in {j \in 1..Len(CollectedSec[entries, 1]) :
                                                  CollectedSec[entries, 1][j].link = ""}}

\* the titles of the entries without a link that pass the filter of collect_de
NoLinkTitlesDe(entries) ==
    {strip(e.title) : e \in {x \in SetOf(de_kept(entries)) : strip(x.link) = ""}}

\* the fetch of no document that has a link raises
LinkedDocsReturn(entries, docs) ==
    \A e \in SetOf(de_kept(entries)) :
        strip(e.link) # "" => get(docs, strip(e.link)).kind # "raise"

\* the last run fetched both feeds
SawBothFeeds == pc = "idle" /\ last.outcome # "none" /\ last.cause \notin {"sec_feed", "de_feed"}

\* C12: a feed item with an empty link and a non-empty title that passes its
\* collector's filter is admitted under its title by the first run that sees
\* it, and by no later run, for the US and the DE collector alike.
C12_NoLinkAdmittedByTitle ==
    /\ SawBothFeeds /\ LinkedDocsReturn(upstream.de, upstream.docs) =>
          NoLinkTitlesSec(upstream.sec) \cup NoLinkTitlesDe(upstream.de) \subseteq admitted_keys
    /\ pc = "save_seen" => KeysOf(new_items) \cap admitted_keys = {}

\* the k-th least element of the set of numbers S
Kth(S, k) == CHOOSE i \in S : Cardinality({j \in S : j <= i}) = k

\* the positions of the entries whose form code is one of the three listed
ListedForms(entries) ==
    {i \in 1..Len(entries) : extract_sec_form(entries[i].title) \in {"SC 13D", "SC 13G", "8-K"}}

\* the event out[k] is the one for entry e
SecEventOf(ev, e) ==
    /\ ev.event = extract_sec_form(e.title)
    /\ ev.title = strip(e.title)
    /\ ev.link = strip(e.link)

\* C13: the US collector emits exactly one event per feed item whose form code
\* is SC 13D, SC 13G or 8-K and none for any other item (none for the amended
\* form SC 13D/A), in feed order.
C13_SecWhitelistInFeedOrder ==
    Returned("collect_sec") =>
        /\ Len(ret.val) = Cardinality(ListedForms(call.arg))
        /\ \A k \in 1..Len(ret.val) :
              SecEventOf(ret.val[k], call.arg[Kth(ListedForms(call.arg), k)])
        /\ \A k \in 1..Len(ret.val) : ~startswith(ret.val[k].title, "SC 13D/A")

\* collect_sec has returned from a feed with an amended form between two listed
\* forms
C13_Witness ==
    /\ Returned("collect_sec")
    /\ call.arg = <<S_13D, S_13DA, S_8K>>
    /\ Len(ret.val) = 2
    /\ ret.val[1].event = "SC 13D" /\ ret.val[2].event = "8-K"

\* the positions, among the first n, of the entries whose title contains "EQS"
\* and "Stimmrechte" or "Stimmrechtsmitteilung"
VotingRights(entries, n) ==
    {i \in 1..Min({n, Len(entries)}) :
        /\ Contains(entries[i].title, "EQS")
        /\ \/ Contains(entries[i].title, "Stimmrechte")
           \/ Contains(entries[i].title, "Stimmrechtsmitteilung")}

\* C14: when every document fetch returns, the DE collector considers only the
\* first N feed items and emits exactly one event, in feed order, per
\* considered item whose title contains "EQS" and "Stimmrechte" or
\* "Stimmrechtsmitteilung"; it fetches a document only for the kept items, so
\* at most N per run.
C14_DeFirstNFiltered ==
    Returned("collect_de") /\ ~ret.val.raises =>
        /\ Len(ret.val.out) = Cardinality(VotingRights(call.arg.entries, DE_ENTRY_LIMIT))
        /\ Len(ret.val.requests) = Len(ret.val.out)
        /\ Len(ret.val.requests) <= DE_ENTRY_LIMIT
        /\ \A k \in 1..Len(ret.val.out) :
              /\ ret.val.out[k].title =
                    strip(call.arg.entries[Kth(VotingRights(call.arg.entries, DE_ENTRY_LIMIT), k)].title)
              /\ ret.val.out[k].link =
                    strip(call.arg.entries[Kth(VotingRights(call.arg.entries, DE_ENTRY_LIMIT), k)].link)
              /\ ret.val.requests[k] = ret.val.out[k].link

\* collect_de has returned from a feed whose entry behind the first N would
\* pass the filter, with one entry among the first N that does not
C14_Witness ==
    /\ Returned("collect_de") /\ ~ret.val.raises
    /\ Len(call.arg.entries) > DE_ENTRY_LIMIT
    /\ de_keeps(call.arg.entries[Len(call.arg.entries)].title)
    /\ ~de_keeps(call.arg.entries[1].title)
    /\ Len(ret.val.out) = 1

\* an event as the US collector emits it
FromUs(ev) ==
    /\ ev.region = "US" /\ ev.source = "SEC"
    /\ ev.buyer = "" /\ ev.target = "" /\ ev.percent = ""

\* at line 174 items holds the events of collect_sec, then those of collect_de:
\* the former are as the claim says, the latter have region DE and source src,
\* and every ledger event carries one of the two (region, source) pairs
RegionsAndSources(src) ==
    /\ pc = "merge" =>
          \A i \in 1..Len(items) :
              IF i <= Len(CollectedSec[upstream.sec, now])
              THEN FromUs(items[i])
              ELSE items[i].region = "DE" /\ items[i].source = src
    /\ \A i \in 1..Len(Ledger) :
          <<Ledger[i].region, Ledger[i].source>> \in {<<"US", "SEC">>, <<"DE", src>>}

\* C15 as stated: every event of the DE collector has region DE and source
\* DE_EXCHANGE_NEWS, every event of the US collector has region US, source SEC
\* and empty buyer, target and percent; every ledger event carries one of
\* these two (region, source) pairs.
C15_SourceAsStated == RegionsAndSources("DE_EXCHANGE_NEWS")

\* C15 amended: the source of the events of the DE collector is the string
\* DeutscheBoerseRSS; the rest as stated.
C15_SourceDeutscheBoerseRSS == RegionsAndSources("DeutscheBoerseRSS")

\* both collectors have emitted an event in this run, and the ledger holds an
\* event of the DE collector from the run before
C15_Witness ==
    /\ pc = "merge"
    /\ Len(CollectedSec[upstream.sec, now]) > 0
    /\ Len(items) > Len(CollectedSec[upstream.sec, now])
    /\ \E i \in 1..Len(Ledger) : Ledger[i].region = "DE"

\* the positions of the lines whose trimmed, lower-cased form starts with "neu "
NeuLines(lines) == {i \in 1..Len(lines) : startswith(lower(strip(lines[i])), "neu ")}

\* the last percentage token of the line, "," normalized to "."; no value
\* when the line holds none
LastToken(tokens) ==
    IF tokens = <<>> THEN None ELSE float(ReplaceChar(tokens[Len(tokens)], ",", "."))

\* the value taken from the first of the lines at the positions ps
FromFirstOf(lines, ps) ==
    IF ps = {} THEN None ELSE LastToken(findall_percent(lines[Min(ps)]))

\* C16 as stated: the extractor returns the last percentage token of the line
\* that starts with "neu " (the first such line), and no value when there is
\* no such line or that line holds no percentage token; the percent field is
\* empty exactly when there is no value.
C16_PercentOfNeuLine ==
    Returned("de_parse_percent_new") =>
        /\ ret.val.pn = FromFirstOf(splitlines(call.arg), NeuLines(splitlines(call.arg)))
        /\ ret.val.percent_new = "" <=> ret.val.pn.isNone

\* C16 amended: the extractor returns the last percentage token of the first
\* line that starts with "neu " and holds a percentage token, and no value
\* when no such line holds one; the percent field is empty exactly when there
\* is no value.
C16_PercentOfFirstNeuLineWithToken ==
    Returned("de_parse_percent_new") =>
        /\ ret.val.pn =
              FromFirstOf(splitlines(call.arg),
                          {i \in NeuLines(splitlines(call.arg)) :
                              findall_percent(splitlines(call.arg)[i]) # <<>>})
        /\ ret.val.percent_new = "" <=> ret.val.pn.isNone

\* the extractor has returned 3.04 for the line of three percentages
C16_Witness ==
    /\ Returned("de_parse_percent_new")
    /\ call.arg = "neu 3,04 % 0,00 % 3,04 % 800.000.000"
    /\ ret.val.pn.repr = "3.04" /\ ret.val.percent_new = "3.04"

\* the positions of the lines that contain the label and its colon
LabelLines(lines, label) == {i \in 1..Len(lines) : Contains(lines[i], label \o ":")}

\* the text of the line behind the first label and its colon, trimmed
AfterColon(line, label) ==
    strip(SubSeq(line,
                 Min({p \in 1..Len(line) : At(line, p, label \o ":")}) + Len(label) + 1,
                 Len(line)))

\* the text behind the label on the first of the lines ps
TextOfFirst(lines, ps, label) == AfterColon(lines[Min(ps)], label)

\* the legal-person line when there is one, else the natural-person line
LegalFirst(lines, legal, natural) ==
    IF legal # {} THEN TextOfFirst(lines, legal, "Juristische Person")
    ELSE IF natural # {} THEN TextOfFirst(lines, natural, "Natürliche Person")
    ELSE ""

\* C17: for a text with a "Juristische Person:" line and a "Natürliche Person:"
\* line, in either order, the notifier extractor returns the text after the
\* colon of the legal-person line; with only a natural-person line it returns
\* that line's text, and with neither the empty string.
C17_LegalPersonFirst ==
    Returned("de_parse_notifier") =>
        ret.val = LegalFirst(splitlines(call.arg),
                             LabelLines(splitlines(call.arg), "Juristische Person"),
                             LabelLines(splitlines(call.arg), "Natürliche Person"))

\* the ledger holds only events the runs have admitted
OwnLedger == KeysOf(Ledger) \subseteq admitted_keys

\* C18: after every completed run the key of every event in the persisted
\* ledger is in the persisted seen-set, whatever the seen-keys record and the
\* ledger record were at load time: readable, missing or unreadable.  Stated
\* for ledgers that hold only what the runs themselves have admitted.
C18_LedgerKeysSeen ==
    last.outcome = "completed" /\ OwnLedger => KeysOf(Ledger) \subseteq SeenKeys
====
